---- MODULE Spec2Model ----
(***************************************************************************)
(* Attack-graph construction (build_attack_graph) and attack-path          *)
(* extraction (extract_attack_paths) of backend/app/attack_graph.py.       *)
(*                                                                         *)
(* Representation of Python values                                         *)
(*   - None and a missing dictionary key are the atoms None and Absent.    *)
(*   - A URL is the sequence of its characters (one-character strings),    *)
(*     so that rstrip("/") is computed on the characters.                  *)
(*   - An alert name or description is the sequence of its tokens; a       *)
(*     token is a run of characters that the substring tests of the rule   *)
(*     table never split.  "x in text" is contiguous sub-sequence search.  *)
(*   - state, service and risk are atomic strings; lower() is the table    *)
(*     LowerStr.                                                           *)
(*   - A node id f"<kind>:<text>" is the pair <<kind, text>>.              *)
(***************************************************************************)
EXTENDS Integers, Sequences, FiniteSets, TLC

\* build_attack_graph and extract_attack_paths
VARIABLES nmap, crawler, zap, G, pc, idx, attack_paths, seen, path_id
\* run_zap_scan: the arguments of the call, the position in the function, the
\* three wait results, the alerts zap.core.alerts returns, the calls made to ZAP and the
\* returned dictionary
VARIABLES args, zpc, spider_status, passive_status, active_status, core_alerts, phases, result
\* SeleniumCrawler.crawl: the links of the site, the two limits, the locals
\* visited and queue, results["pages"], the URLs handed to driver.get and
\* the position in the method
VARIABLES site, max_pages, max_depth, visited, queue, results_pages, fetched, cpc

graph_vars == <<nmap, crawler, zap, G, pc, idx, attack_paths, seen, path_id>>
zap_vars == <<args, zpc, spider_status, passive_status, active_status, core_alerts, phases, result>>
crawl_vars == <<site, max_pages, max_depth, visited, queue, results_pages, fetched, cpc>>

vars == <<graph_vars, zap_vars, crawl_vars>>

(***************************************************************************)
(* Bounds                                                                  *)
(***************************************************************************)
\* Total number of input records (ports + pages + alerts) of one build.
MaxRecs == 3
\* Largest number of edges of a graph handed directly to the extractor.
MaxEdges == 6

(***************************************************************************)
(* Python values                                                           *)
(***************************************************************************)
None == "<None>"
Absent == "<Absent>"
\* The port number of a record whose "port" is null.
NonePort == -1

\* None for a value that is a sequence (a URL, a name, a description).
NoneSeq == <<None>>

\* A truthy value that is not a str (a number, a list) where the code expects
\* a string: a str method applied to it raises AttributeError.
NonStr == "<NonStr>"

\* The rank position of a risk on which _risk_rank raised.
Raised == -2

\* dict.get(key, default) on an input record: the default only for a missing key.
GetField(v, default) == IF v = Absent THEN default ELSE v

\* G.nodes[n].get(key, default) on a node's attribute dictionary.
GetAttr(d, key, default) == IF key \in DOMAIN d THEN d[key] ELSE default

\* Truthiness of an atomic string or None.
Truthy(x) == x # None /\ x # Absent /\ x # ""

\* Truthiness of a sequence-valued string or None.
TruthySeq(x) == x # NoneSeq /\ x # <<>>

\* x or y
Or(x, y) == IF Truthy(x) THEN x ELSE y

OrSeq(x, y) == IF TruthySeq(x) THEN x ELSE y

\* str.lower() on an atomic string and on a token.
LowerStr(s) ==
    CASE s = "OPEN" -> "open"
      [] s = "Open" -> "open"
      [] s = "HTTP" -> "http"
      [] s = "HTTPS" -> "https"
      [] s = "FTP" -> "ftp"
      [] s = "Informational" -> "informational"
      [] s = "INFO" -> "info"
      [] s = "Info" -> "info"
      [] s = "Low" -> "low"
      [] s = "Medium" -> "medium"
      [] s = "MEDIUM" -> "medium"
      [] s = "High" -> "high"
      [] s = "HIGH" -> "high"
      [] s = "Critical" -> "critical"
      [] s = "Anti-" -> "anti-"
      [] s = "Clickjacking" -> "clickjacking"
      [] s = "Content Security Policy" -> "content security policy"
      [] s = "CSP" -> "csp"
      [] s = "Strict-Transport-Security" -> "strict-transport-security"
      [] s = "X-Content-Type-Options" -> "x-content-type-options"
      [] s = "HSTS" -> "hsts"
      [] s = "MIME-sniffing" -> "mime-sniffing"
      [] s = "Security " -> "security "
      [] s = "Misconfig" -> "misconfig"
      [] s = " Header Missing" -> " header missing"
      [] s = " Header Not Set" -> " header not set"
      [] s = " Protection Missing" -> " protection missing"
      [] s = "Alert " -> "alert "
      [] OTHER -> s

\* str.lower() on a text (sequence of tokens).
Lower(t) == [i \in 1..Len(t) |-> LowerStr(t[i])]

\* needle in text, for a needle made of whole tokens.
Contains(text, needle) ==
    \E i \in 1..(Len(text) - Len(needle) + 1) :
        SubSeq(text, i, i + Len(needle) - 1) = needle

\* str.rstrip("/") on a sequence of characters: every trailing "/" goes.
RECURSIVE RStrip(_)
RStrip(u) ==
    IF u # <<>> /\ u[Len(u)] = "/" THEN RStrip(SubSeq(u, 1, Len(u) - 1)) ELSE u

\* str(x) of an alert identifier.
Str(x) == IF x = None THEN "None" ELSE x

\* The decimal text of a port number inside an f-string.
PortText(n) ==
    CASE n = NonePort -> "None"
      [] n = 21 -> "21"
      [] n = 80 -> "80"
      [] n = 443 -> "443"

(***************************************************************************)
(* Input records                                                           *)
(***************************************************************************)
\* Port records {port, state, service} as the port scanner reports them.
PortRecs ==
    { [port |-> 21, state |-> "open", service |-> "ftp"],
      [port |-> 21, state |-> "open", service |-> "http"],
      [port |-> 21, state |-> "closed", service |-> "ftp"],
      [port |-> 80, state |-> "OPEN", service |-> "HTTPS"],
      [port |-> 80, state |-> None, service |-> None],
      [port |-> NonePort, state |-> "open", service |-> "http"] }

\* The URLs "a", "a/", "a//", "/", "//", the empty URL and a null URL.
PageUrls ==
    { <<"a">>, <<"a", "/">>, <<"a", "/", "/">>, <<"/">>, <<"/", "/">>, <<>>, NoneSeq }

PageRecs == { [url |-> u] : u \in PageUrls }

NameAntiClickjacking == <<"Anti-", "clickjacking", " Header Missing">>
NameClickjacking == <<"Clickjacking", " Protection Missing">>
NameCsp == <<"Content Security Policy", " (", "CSP", ")", " Header Not Set">>
NameXcto == <<"X-Content-Type-Options", " Header Missing">>
DescClickMisconfig ==
    <<"allows ", "clickjacking", "; a ", "security ", "misconfig", "uration">>
DescHsts == <<"no ", "hsts", " policy">>

\* Alert records {id, pluginId, alert, name, risk, url, description}.
AlertRecs ==
    { [id |-> "1", pluginId |-> Absent, alert |-> NameAntiClickjacking,
       name |-> NoneSeq, risk |-> "Medium", url |-> <<"a", "/">>,
       description |-> NoneSeq],
      [id |-> "2", pluginId |-> "10", alert |-> NameAntiClickjacking,
       name |-> NoneSeq, risk |-> "High", url |-> <<"a">>,
       description |-> DescClickMisconfig],
      [id |-> "1", pluginId |-> Absent, alert |-> NameCsp,
       name |-> NoneSeq, risk |-> "low", url |-> <<"b">>,
       description |-> <<>>],
      [id |-> Absent, pluginId |-> "10", alert |-> NoneSeq,
       name |-> NameXcto, risk |-> Absent, url |-> NoneSeq,
       description |-> NoneSeq],
      [id |-> Absent, pluginId |-> Absent, alert |-> NoneSeq,
       name |-> NoneSeq, risk |-> None, url |-> <<"/">>,
       description |-> DescHsts],
      [id |-> "3", pluginId |-> Absent, alert |-> NameClickjacking,
       name |-> NoneSeq, risk |-> "bogus", url |-> <<"a">>,
       description |-> <<>>],
      [id |-> Absent, pluginId |-> Absent, alert |-> NameCsp,
       name |-> NoneSeq, risk |-> "High", url |-> <<"a">>,
       description |-> <<>>] }

(***************************************************************************)
(* The graph: nx.DiGraph                                                   *)
(*   nodes  node ids in insertion order                                    *)
(*   data   node id -> attribute dictionary                                *)
(*   edges  [src, dst, relation] in insertion order, one per ordered pair  *)
(***************************************************************************)
EmptyGraph == [nodes |-> <<>>, data |-> <<>>, edges |-> <<>>]

\* node_id in G
HasNode(g, n) == n \in DOMAIN g.data

HasEdge(g, u, v) == \E i \in 1..Len(g.edges) : g.edges[i].src = u /\ g.edges[i].dst = v

\* G.add_node on a new node; on an existing node networkx updates attributes.
GAddNode(g, n, attrs) ==
    IF HasNode(g, n)
    THEN [g EXCEPT !.data[n] = attrs @@ @]
    ELSE [g EXCEPT !.nodes = Append(@, n), !.data = (n :> attrs) @@ @]

\* G.add_edge on a DiGraph: an endpoint that is not a node yet becomes one,
\* with no attributes; a second edge for the same ordered pair replaces the
\* attributes of the first and keeps its place.
GAddEdge(g, u, v, relation) ==
    LET gu == IF HasNode(g, u) THEN g ELSE GAddNode(g, u, <<>>)
        gv == IF HasNode(gu, v) THEN gu ELSE GAddNode(gu, v, <<>>)
    IN IF HasEdge(gv, u, v)
       THEN [gv EXCEPT !.edges =
               [i \in 1..Len(@) |->
                   IF @[i].src = u /\ @[i].dst = v
                   THEN [@[i] EXCEPT !.relation = relation] ELSE @[i]]]
       ELSE [gv EXCEPT !.edges = Append(@, [src |-> u, dst |-> v, relation |-> relation])]

\* add_node without its membership test: a re-added id takes the later values.
add_node_Overwrite(g, node_id, label, node_type, attrs) ==
    GAddNode(g, node_id, [label |-> label, type |-> node_type] @@ attrs)

\* build_attack_graph.add_node
add_node(g, node_id, label, node_type, attrs) ==
    IF ~HasNode(g, node_id)
    THEN GAddNode(g, node_id, [label |-> label, type |-> node_type] @@ attrs)
    ELSE g

\* add_edge without its membership test.
add_edge_Unguarded(g, src, dst, relation) == GAddEdge(g, src, dst, relation)

\* build_attack_graph.add_edge
add_edge(g, src, dst, relation) ==
    IF HasNode(g, src) /\ HasNode(g, dst) THEN GAddEdge(g, src, dst, relation) ELSE g

PortId(port_num) == <<"port:", PortText(port_num)>>
PageId(norm_url) == <<"page:">> \o norm_url
VulnId(alert_id) == <<"vuln:", alert_id>>

\* The first port loop without the test for a null port number.
AddPortNode_NoSkip(g, p) ==
    add_node(g, PortId(p.port),
             <<"Port ", PortText(p.port), " (", Or(p.service, "unknown"), ")">>,
             "port", [service |-> p.service, state |-> p.state])

\* One iteration of the first loop over nmap["ports"].
AddPortNode(g, p) ==
    IF p.port = NonePort THEN g
    ELSE add_node(g, PortId(p.port),
                  <<"Port ", PortText(p.port), " (", Or(p.service, "unknown"), ")">>,
                  "port", [service |-> p.service, state |-> p.state])

\* The page loop without the normalization: the node id keeps the URL as given.
AddPageNode_NoStrip(g, page) ==
    IF ~TruthySeq(page.url) THEN g
    ELSE add_node(g, PageId(page.url), page.url, "page", <<>>)

\* One iteration of the loop over crawler["pages"].
AddPageNode(g, page) ==
    IF ~TruthySeq(page.url) THEN g
    ELSE LET norm_url == RStrip(page.url)
         IN add_node(g, PageId(norm_url), norm_url, "page", <<>>)

threat_defs ==
    << [tid |-> <<"threat:", "clickjacking">>, label |-> <<"Clickjacking Risk">>],
       [tid |-> <<"threat:", "xss">>, label |-> <<"XSS / Client-side Injection Risk">>],
       [tid |-> <<"threat:", "https_downgrade">>,
        label |-> <<"HTTPS Downgrade / Transport Security Risk">>],
       [tid |-> <<"threat:", "mime_sniffing">>,
        label |-> <<"MIME Sniffing / Content-Type Confusion">>],
       [tid |-> <<"threat:", "ftp_weakness">>,
        label |-> <<"FTP Service Weakness / Data Exposure">>],
       [tid |-> <<"threat:", "security_misconfig">>,
        label |-> <<"General Security Misconfiguration">>] >>

ThreatId(name) == <<"threat:", name>>

\* The loop over threat_defs stopping one entry short.
RECURSIVE AddThreatNodes_SkipLast(_, _)
AddThreatNodes_SkipLast(g, i) ==
    IF i >= Len(threat_defs) THEN g
    ELSE AddThreatNodes_SkipLast(add_node(g, threat_defs[i].tid, threat_defs[i].label,
                                          "threat", <<>>), i + 1)

\* The threat nodes registered only when there is an alert to map.
RECURSIVE AddThreatNodes_OnlyWithAlerts(_, _)
AddThreatNodes_OnlyWithAlerts(g, i) ==
    IF zap = <<>> \/ i > Len(threat_defs) THEN g
    ELSE AddThreatNodes_OnlyWithAlerts(add_node(g, threat_defs[i].tid, threat_defs[i].label,
                                                "threat", <<>>), i + 1)

\* The loop over threat_defs.
RECURSIVE AddThreatNodes(_, _)
AddThreatNodes(g, i) ==
    IF i > Len(threat_defs) THEN g
    ELSE AddThreatNodes(add_node(g, threat_defs[i].tid, threat_defs[i].label,
                                 "threat", <<>>), i + 1)

AlertId(alert) == Str(GetField(alert.id, GetField(alert.pluginId, "")))
AlertName(alert) == OrSeq(alert.alert, OrSeq(alert.name, <<"Alert ", AlertId(alert)>>))
AlertRisk(alert) == GetField(alert.risk, "Informational")
AlertUrl(alert) == RStrip(OrSeq(alert.url, <<>>))

\* The page -> vuln step falling back to the first crawled page when the
\* alert's own page is not in the graph.
LinkPage_FallbackPage(g, url, vuln_node_id) ==
    LET pages == SelectSeq(g.nodes, LAMBDA n : g.data[n].type = "page")
    IN IF url = <<>> THEN g
       ELSE IF HasNode(g, PageId(url))
       THEN add_edge(g, PageId(url), vuln_node_id, "has_vulnerability")
       ELSE IF pages # <<>>
       THEN add_edge(g, pages[1], vuln_node_id, "has_vulnerability")
       ELSE g

\* The page -> vuln step with the edge drawn from the vuln node to the page.
LinkPage_Reversed(g, url, vuln_node_id) ==
    IF url # <<>> /\ HasNode(g, PageId(url))
    THEN add_edge(g, vuln_node_id, PageId(url), "has_vulnerability")
    ELSE g

\* The page -> vuln step of one alert.
LinkPage(g, url, vuln_node_id) ==
    IF url # <<>> /\ HasNode(g, PageId(url))
    THEN add_edge(g, PageId(url), vuln_node_id, "has_vulnerability")
    ELSE g

\* The clickjacking rule matching the bare word in the name as well.
RuleClickjacking_AnyName(lower_name, desc) ==
    Contains(desc, <<"clickjacking">>) \/ Contains(lower_name, <<"clickjacking">>)

\* The rule table, as the threats whose rule fires, in the order of the code.
RuleClickjacking(lower_name, desc) ==
    Contains(desc, <<"clickjacking">>) \/ Contains(lower_name, <<"anti-", "clickjacking">>)
RuleXss(lower_name, desc) ==
    Contains(lower_name, <<"content security policy">>) \/ Contains(lower_name, <<"csp">>)
RuleHttps(lower_name, desc) ==
    Contains(lower_name, <<"strict-transport-security">>) \/ Contains(desc, <<"hsts">>)
RuleMime(lower_name, desc) ==
    Contains(lower_name, <<"x-content-type-options">>) \/ Contains(desc, <<"mime-sniffing">>)
RuleMisconfig(lower_name, desc) ==
    Contains(desc, <<"security ", "misconfig", "uration">>) \/ Contains(desc, <<"misconfig">>)

\* The vuln -> threat step adding an edge only to a vuln node that has none.
LeadsTo_OncePerNode(g, fires, vuln_node_id, threat) ==
    IF fires /\ ~(\E i \in 1..Len(g.edges) : g.edges[i].src = vuln_node_id)
    THEN add_edge(g, vuln_node_id, ThreatId(threat), "leads_to")
    ELSE g

\* if <rule>: add_edge(vuln_node_id, "threat:<name>", "leads_to")
LeadsTo(g, fires, vuln_node_id, threat) ==
    IF fires THEN add_edge(g, vuln_node_id, ThreatId(threat), "leads_to") ELSE g

\* The alert loop skipping an alert whose vuln node exists already.
AddAlert_SkipKnown(g, alert) ==
    LET vuln_node_id == VulnId(AlertId(alert))
        lower_name == Lower(AlertName(alert))
        desc == Lower(OrSeq(alert.description, <<>>))
        g1 == add_node(g, vuln_node_id, AlertName(alert), "vuln",
                       [risk |-> AlertRisk(alert), url |-> AlertUrl(alert)])
        g2 == LinkPage(g1, AlertUrl(alert), vuln_node_id)
        g3 == LeadsTo(g2, RuleClickjacking(lower_name, desc), vuln_node_id, "clickjacking")
        g4 == LeadsTo(g3, RuleXss(lower_name, desc), vuln_node_id, "xss")
        g5 == LeadsTo(g4, RuleHttps(lower_name, desc), vuln_node_id, "https_downgrade")
        g6 == LeadsTo(g5, RuleMime(lower_name, desc), vuln_node_id, "mime_sniffing")
    IN IF HasNode(g, vuln_node_id) THEN g
       ELSE LeadsTo(g6, RuleMisconfig(lower_name, desc), vuln_node_id, "security_misconfig")

\* The alert loop with the rules chained by elif: the first rule that fires wins.
AddAlert_ElifChain(g, alert) ==
    LET alert_id == AlertId(alert)
        name == AlertName(alert)
        vuln_node_id == VulnId(alert_id)
        lower_name == Lower(name)
        desc == Lower(OrSeq(alert.description, <<>>))
        g1 == add_node(g, vuln_node_id, name, "vuln",
                       [risk |-> AlertRisk(alert), url |-> AlertUrl(alert)])
        g2 == LinkPage(g1, AlertUrl(alert), vuln_node_id)
    IN IF RuleClickjacking(lower_name, desc)
       THEN LeadsTo(g2, TRUE, vuln_node_id, "clickjacking")
       ELSE IF RuleXss(lower_name, desc) THEN LeadsTo(g2, TRUE, vuln_node_id, "xss")
       ELSE IF RuleHttps(lower_name, desc)
       THEN LeadsTo(g2, TRUE, vuln_node_id, "https_downgrade")
       ELSE IF RuleMime(lower_name, desc) THEN LeadsTo(g2, TRUE, vuln_node_id, "mime_sniffing")
       ELSE LeadsTo(g2, RuleMisconfig(lower_name, desc), vuln_node_id, "security_misconfig")

\* One iteration of the loop over zap["alerts"].
AddAlert(g, alert) ==
    LET alert_id == AlertId(alert)
        name == AlertName(alert)
        risk == AlertRisk(alert)
        url == AlertUrl(alert)
        vuln_node_id == VulnId(alert_id)
        lower_name == Lower(name)
        desc == Lower(OrSeq(alert.description, <<>>))
        g1 == add_node(g, vuln_node_id, name, "vuln", [risk |-> risk, url |-> url])
        g2 == LinkPage(g1, url, vuln_node_id)
        g3 == LeadsTo(g2, RuleClickjacking(lower_name, desc), vuln_node_id, "clickjacking")
        g4 == LeadsTo(g3, RuleXss(lower_name, desc), vuln_node_id, "xss")
        g5 == LeadsTo(g4, RuleHttps(lower_name, desc), vuln_node_id, "https_downgrade")
        g6 == LeadsTo(g5, RuleMime(lower_name, desc), vuln_node_id, "mime_sniffing")
    IN LeadsTo(g6, RuleMisconfig(lower_name, desc), vuln_node_id, "security_misconfig")

\* The second port loop reading the state stored on the port node instead of
\* the record's.
MapPort_StoredState(g, p) ==
    LET port_num == p.port
        state == IF HasNode(g, PortId(p.port))
                 THEN LowerStr(Or(GetAttr(g.data[PortId(p.port)], "state", None), ""))
                 ELSE LowerStr(Or(p.state, ""))
        service == LowerStr(Or(p.service, ""))
        node_id == PortId(port_num)
        g1 == IF state = "open" /\ port_num = 21
              THEN add_edge(add_edge(g, node_id, ThreatId("ftp_weakness"), "may_enable"),
                            node_id, ThreatId("security_misconfig"), "may_enable")
              ELSE g
    IN IF state = "open" /\ service \in {"http", "https"}
       THEN add_edge(g1, node_id, ThreatId("security_misconfig"), "exposes")
       ELSE g1

\* One iteration of the second loop over nmap["ports"].
MapPort(g, p) ==
    LET port_num == p.port
        state == LowerStr(Or(p.state, ""))
        service == LowerStr(Or(p.service, ""))
        node_id == PortId(port_num)
        g1 == IF state = "open" /\ port_num = 21
              THEN add_edge(add_edge(g, node_id, ThreatId("ftp_weakness"), "may_enable"),
                            node_id, ThreatId("security_misconfig"), "may_enable")
              ELSE g
    IN IF state = "open" /\ service \in {"http", "https"}
       THEN add_edge(g1, node_id, ThreatId("security_misconfig"), "exposes")
       ELSE g1

\* The four loops of build_attack_graph, each over its whole list.
RECURSIVE AddPorts(_, _)
AddPorts(g, ports) ==
    IF ports = <<>> THEN g ELSE AddPorts(AddPortNode(g, Head(ports)), Tail(ports))

RECURSIVE AddPages(_, _)
AddPages(g, pages) ==
    IF pages = <<>> THEN g ELSE AddPages(AddPageNode(g, Head(pages)), Tail(pages))

RECURSIVE AddAlerts(_, _)
AddAlerts(g, alerts) ==
    IF alerts = <<>> THEN g ELSE AddAlerts(AddAlert(g, Head(alerts)), Tail(alerts))

RECURSIVE MapPorts(_, _)
MapPorts(g, ports) ==
    IF ports = <<>> THEN g ELSE MapPorts(MapPort(g, Head(ports)), Tail(ports))

\* build_attack_graph as a function of its three collections.
build_attack_graph(ports, pages, alerts) ==
    MapPorts(AddAlerts(AddThreatNodes(AddPages(AddPorts(EmptyGraph, ports), pages), 1),
                       alerts), ports)

(***************************************************************************)
(* extract_attack_paths                                                    *)
(***************************************************************************)
\* cutoff=4 of the call of nx.all_simple_paths.
Cutoff == 4

Range(f) == { f[i] : i \in DOMAIN f }

\* The successors of u in adjacency (insertion) order.
Successors(g, u) ==
    LET out == SelectSeq(g.edges, LAMBDA e : e.src = u)
    IN [i \in 1..Len(out) |-> out[i].dst]

\* Depth-first enumeration of the simple paths that extend path to target and
\* have at most cutoff edges; k is the next successor of the last node to try.
RECURSIVE Extend(_, _, _, _, _)
Extend(g, path, k, target, cutoff) ==
    LET succs == Successors(g, path[Len(path)])
    IN IF Len(path) > cutoff \/ k > Len(succs) THEN <<>>
       ELSE LET child == succs[k]
                here == IF child \in Range(path) THEN <<>>
                        ELSE IF child = target THEN << Append(path, child) >>
                        ELSE Extend(g, Append(path, child), 1, target, cutoff)
            IN here \o Extend(g, path, k + 1, target, cutoff)

\* all_simple_paths with a cutoff one edge too long.
all_simple_paths_CutoffPlusOne(g, source, target, cutoff) ==
    IF source = target THEN <<>> ELSE Extend(g, <<source>>, 1, target, cutoff + 1)

\* nx.all_simple_paths(G, source, target, cutoff), as the list it generates.
all_simple_paths(g, source, target, cutoff) ==
    IF source = target THEN <<>> ELSE Extend(g, <<source>>, 1, target, cutoff)

_risk_rank(risk) ==
    LET r == LowerStr(Or(risk, ""))
    IN IF risk = NonStr THEN Raised
       ELSE
       CASE r = "informational" -> 0
         [] r = "info" -> 0
         [] r = "low" -> 1
         [] r = "medium" -> 2
         [] r = "high" -> 3
         [] r = "critical" -> 4
         [] OTHER -> 0

\* node_label reading the wrong key.
node_label_TypeKey(g, n) == <<GetAttr(g.data[n], "type", "")>>

node_label(g, n) == GetAttr(g.data[n], "label", n)
node_type(g, n) == GetAttr(g.data[n], "type", "")
node_risk(g, n) == GetAttr(g.data[n], "risk", "Informational")

\* [n for n, d in G.nodes(data=True) if d.get("type") == t]
NodesOfType(g, t) == SelectSeq(g.nodes, LAMBDA n : GetAttr(g.data[n], "type", None) = t)

\* The loop over the nodes of one path without the rank comparison: the risk
\* of the last vuln node wins.
RECURSIVE BestRisk_LastVuln(_, _, _, _)
BestRisk_LastVuln(g, path, i, best) ==
    IF i > Len(path) THEN best
    ELSE IF GetAttr(g.data[path[i]], "type", "") = "vuln"
    THEN BestRisk_LastVuln(g, path, i + 1,
            [rank |-> 0, risk |-> GetAttr(g.data[path[i]], "risk", "Informational")])
    ELSE BestRisk_LastVuln(g, path, i + 1, best)

\* The loop over the nodes of one path that keeps the best risk seen so far.
RECURSIVE BestRisk(_, _, _, _)
BestRisk(g, path, i, best) ==
    IF i > Len(path) THEN best
    ELSE LET n == path[i]
             r == node_risk(g, n)
             rk == _risk_rank(r)
         IN IF node_type(g, n) = "vuln" /\ rk = Raised
            THEN [rank |-> Raised, risk |-> r]
            ELSE IF node_type(g, n) = "vuln" /\ rk > best.rank
            THEN BestRisk(g, path, i + 1, [rank |-> rk, risk |-> r])
            ELSE BestRisk(g, path, i + 1, best)

\* sep.join(steps_labels); the arrow separator of the code is written " -> ".
RECURSIVE Join(_, _)
Join(sep, labels) ==
    IF labels = <<>> THEN <<>>
    ELSE IF Len(labels) = 1 THEN labels[1]
    ELSE labels[1] \o <<sep>> \o Join(sep, Tail(labels))

\* The dictionary appended for one path.  The field nodes is the tuple `key`
\* the entry was built from; the returned dictionary does not carry it.
Entry(g, path, threat, id) ==
    LET steps_labels == [i \in 1..Len(path) |-> node_label(g, path[i])]
    IN [id |-> <<"path_", id>>,
        risk |-> BestRisk(g, path, 1, [rank |-> 0, risk |-> "Informational"]).risk,
        threat |-> node_label(g, threat),
        summary |-> Join(" -> ", steps_labels),
        steps |-> steps_labels,
        nodes |-> path]

\* key in seen
Seen(acc, key) == key \in acc.seen

\* The risk scan of one path raised.
Fails(g, path) ==
    BestRisk(g, path, 1, [rank |-> 0, risk |-> "Informational"]).rank = Raised

\* The loop over the paths counting a failed path as an emitted one.
RECURSIVE EmitPaths_CountsFailures(_, _, _, _, _)
EmitPaths_CountsFailures(g, paths, i, threat, acc) ==
    IF i > Len(paths) THEN acc
    ELSE LET key == paths[i]
         IN IF Seen(acc, key) THEN EmitPaths_CountsFailures(g, paths, i + 1, threat, acc)
            ELSE IF Fails(g, key)
            THEN [acc EXCEPT !.seen = @ \cup {key}, !.path_id = @ + 1]
            ELSE EmitPaths_CountsFailures(g, paths, i + 1, threat,
                           [out |-> Append(acc.out, Entry(g, key, threat, acc.path_id)),
                            seen |-> acc.seen \cup {key},
                            path_id |-> acc.path_id + 1])

\* The body of the innermost loop, over the paths of one (src, threat) pair,
\* inside the try block: an exception leaves the loop for the next source.
\* acc is [out, seen, path_id].
RECURSIVE EmitPaths(_, _, _, _, _)
EmitPaths(g, paths, i, threat, acc) ==
    IF i > Len(paths) THEN acc
    ELSE LET key == paths[i]
         IN IF Seen(acc, key) THEN EmitPaths(g, paths, i + 1, threat, acc)
            ELSE IF Fails(g, key) THEN [acc EXCEPT !.seen = @ \cup {key}]
            ELSE EmitPaths(g, paths, i + 1, threat,
                           [out |-> Append(acc.out, Entry(g, key, threat, acc.path_id)),
                            seen |-> acc.seen \cup {key},
                            path_id |-> acc.path_id + 1])

\* The sources without the pages.
Sources_PortsOnly(g) == SelectSeq(g.nodes, LAMBDA n : GetAttr(g.data[n], "type", None) = "port")

\* The sources with the pages ahead of the ports.
Sources_PagesFirst(g) == NodesOfType(g, "page") \o NodesOfType(g, "port")

\* for src in ports + pages
Sources(g) == NodesOfType(g, "port") \o NodesOfType(g, "page")

Threats(g) == NodesOfType(g, "threat")

\* The loop over the sources for one threat.
RECURSIVE ExtractForThreat(_, _, _, _, _)
ExtractForThreat(g, srcs, j, threat, acc) ==
    IF j > Len(srcs) THEN acc
    ELSE ExtractForThreat(g, srcs, j + 1, threat,
            EmitPaths(g, all_simple_paths(g, srcs[j], threat, Cutoff), 1, threat, acc))

(***************************************************************************)
(* The pipeline: build_attack_graph on one snapshot of the three record    *)
(* lists, then extract_attack_paths on the graph it returns.               *)
(*   pc   the loop the program is in; idx the next element of that loop    *)
(***************************************************************************)
AfterAlerts == IF Len(nmap) > 0 THEN "portmap" ELSE "extract"
AfterThreats == IF Len(zap) > 0 THEN "alerts" ELSE AfterAlerts
AfterPorts == IF Len(crawler) > 0 THEN "pages" ELSE "threats"

\* No call of run_zap_scan or of SeleniumCrawler.crawl is in progress.
NoScan ==
    /\ args = None /\ zpc = "idle" /\ spider_status = None /\ passive_status = None
    /\ active_status = None /\ core_alerts = <<>> /\ phases = <<>> /\ result = None

NoCrawl ==
    /\ site = None /\ max_pages = 0 /\ max_depth = 0 /\ visited = {} /\ queue = <<>>
    /\ results_pages = <<>> /\ fetched = <<>> /\ cpc = "idle"

\* No build or extraction is in progress.
NoGraph ==
    /\ nmap = <<>> /\ crawler = <<>> /\ zap = <<>> /\ G = EmptyGraph /\ pc = "idle"
    /\ idx = 1 /\ attack_paths = <<>> /\ seen = {} /\ path_id = 1

\* The loop continues with its next element or hands over to the next loop.
Advance(n, next) ==
    IF idx < n THEN idx' = idx + 1 /\ pc' = pc ELSE idx' = 1 /\ pc' = next

Init ==
    /\ \E i \in 0..MaxRecs : \E j \in 0..(MaxRecs - i) : \E k \in 0..(MaxRecs - i - j) :
          /\ nmap \in [1..i -> PortRecs]
          /\ crawler \in [1..j -> PageRecs]
          /\ zap \in [1..k -> AlertRecs]
    /\ G = EmptyGraph
    /\ pc = IF Len(nmap) > 0 THEN "ports" ELSE AfterPorts
    /\ idx = 1
    /\ attack_paths = <<>>
    /\ seen = {}
    /\ path_id = 1
    /\ NoScan
    /\ NoCrawl

AddPortStep ==
    /\ pc = "ports"
    /\ G' = AddPortNode(G, nmap[idx])
    /\ Advance(Len(nmap), AfterPorts)
    /\ UNCHANGED <<nmap, crawler, zap, attack_paths, seen, path_id>>
    /\ UNCHANGED <<zap_vars, crawl_vars>>

AddPageStep ==
    /\ pc = "pages"
    /\ G' = AddPageNode(G, crawler[idx])
    /\ Advance(Len(crawler), "threats")
    /\ UNCHANGED <<nmap, crawler, zap, attack_paths, seen, path_id>>
    /\ UNCHANGED <<zap_vars, crawl_vars>>

RegisterThreats ==
    /\ pc = "threats"
    /\ G' = AddThreatNodes(G, 1)
    /\ pc' = AfterThreats
    /\ idx' = 1
    /\ UNCHANGED <<nmap, crawler, zap, attack_paths, seen, path_id>>
    /\ UNCHANGED <<zap_vars, crawl_vars>>

AddAlertStep ==
    /\ pc = "alerts"
    /\ G' = AddAlert(G, zap[idx])
    /\ Advance(Len(zap), AfterAlerts)
    /\ UNCHANGED <<nmap, crawler, zap, attack_paths, seen, path_id>>
    /\ UNCHANGED <<zap_vars, crawl_vars>>

MapPortStep ==
    /\ pc = "portmap"
    /\ G' = MapPort(G, nmap[idx])
    /\ Advance(Len(nmap), "extract")
    /\ UNCHANGED <<nmap, crawler, zap, attack_paths, seen, path_id>>
    /\ UNCHANGED <<zap_vars, crawl_vars>>

\* One iteration of the outer loop of extract_attack_paths.
ExtractThreat ==
    /\ pc = "extract"
    /\ idx <= Len(Threats(G))
    /\ LET acc == ExtractForThreat(G, Sources(G), 1, Threats(G)[idx],
                     [out |-> attack_paths, seen |-> seen, path_id |-> path_id])
       IN /\ attack_paths' = acc.out
          /\ seen' = acc.seen
          /\ path_id' = acc.path_id
    /\ idx' = idx + 1
    /\ UNCHANGED <<nmap, crawler, zap, G, pc>>
    /\ UNCHANGED <<zap_vars, crawl_vars>>

\* return attack_paths
Return ==
    /\ pc = "extract"
    /\ idx > Len(Threats(G))
    /\ pc' = "done"
    /\ UNCHANGED <<nmap, crawler, zap, G, idx, attack_paths, seen, path_id>>
    /\ UNCHANGED <<zap_vars, crawl_vars>>

Next ==
    \/ AddPortStep
    \/ AddPageStep
    \/ RegisterThreats
    \/ AddAlertStep
    \/ MapPortStep
    \/ ExtractThreat
    \/ Return

Spec == Init /\ [][Next]_vars

(***************************************************************************)
(* extract_attack_paths on a graph given by its caller: any typed graph    *)
(* over a fixed set of nodes with at most MaxEdges of the edges below.     *)
(***************************************************************************)
NP == <<"port:", "21">>
NG == <<"page:", "a">>
NV1 == <<"vuln:", "1">>
NV2 == <<"vuln:", "2">>
NV3 == <<"vuln:", "3">>
NT1 == <<"threat:", "clickjacking">>
NT2 == <<"threat:", "xss">>

GivenNodes == <<NP, NG, NV1, NV2, NV3, NT1, NT2>>

GivenEdges ==
    << <<NP, NV1>>, <<NP, NT1>>, <<NG, NV1>>, <<NG, NV2>>, <<NV1, NV2>>,
       <<NV2, NV3>>, <<NV3, NT1>>, <<NV1, NT1>>, <<NV2, NV1>>, <<NV3, NT2>>,
       <<NT2, NT1>>, <<NP, NG>>, <<NV2, NT2>>, <<NV3, NV1>> >>

\* The risk attributes of the three vuln nodes; Absent: the node has none.
RiskProfiles ==
    { <<"Low", "High", "medium">>,
      <<"Critical", None, "bogus">>,
      <<Absent, "Info", "MEDIUM">> }

VulnData(label, risk) ==
    IF risk = Absent THEN [label |-> label, type |-> "vuln"]
    ELSE [label |-> label, type |-> "vuln", risk |-> risk]

GivenData(rp) ==
    (NP :> [label |-> <<"Port ", "21", " (", "ftp", ")">>, type |-> "port"]) @@
    (NG :> [label |-> <<"a">>, type |-> "page"]) @@
    (NV1 :> VulnData(NameAntiClickjacking, rp[1])) @@
    (NV2 :> VulnData(NameCsp, rp[2])) @@
    (NV3 :> VulnData(NameXcto, rp[3])) @@
    (NT1 :> [label |-> threat_defs[1].label, type |-> "threat"]) @@
    (NT2 :> [label |-> threat_defs[2].label, type |-> "threat"])

\* The edges of GivenEdges with an index in chosen, in their order.
RECURSIVE PickEdges(_, _)
PickEdges(chosen, i) ==
    IF i > Len(GivenEdges) THEN <<>>
    ELSE (IF i \in chosen
          THEN << [src |-> GivenEdges[i][1], dst |-> GivenEdges[i][2],
                   relation |-> "leads_to"] >>
          ELSE <<>>) \o PickEdges(chosen, i + 1)

InitExtract ==
    /\ nmap = <<>>
    /\ crawler = <<>>
    /\ zap = <<>>
    /\ \E chosen \in SUBSET (1..Len(GivenEdges)) : \E rp \in RiskProfiles :
          /\ Cardinality(chosen) <= MaxEdges
          /\ G = [nodes |-> GivenNodes, data |-> GivenData(rp),
                  edges |-> PickEdges(chosen, 1)]
    /\ pc = "extract"
    /\ idx = 1
    /\ attack_paths = <<>>
    /\ seen = {}
    /\ path_id = 1
    /\ NoScan
    /\ NoCrawl

NextExtract ==
    \/ ExtractThreat
    \/ Return

SpecExtract == InitExtract /\ [][NextExtract]_vars

\* Risk attributes of which one is not a string.
FaultyProfiles ==
    { <<NonStr, "High", "Low">>,
      <<"Medium", NonStr, "Critical">> }

\* extract_attack_paths on a graph one of whose vuln nodes has a risk that is
\* not a string.
InitFaulty ==
    /\ nmap = <<>>
    /\ crawler = <<>>
    /\ zap = <<>>
    /\ \E chosen \in SUBSET (1..Len(GivenEdges)) : \E rp \in FaultyProfiles :
          /\ Cardinality(chosen) <= MaxEdges
          /\ G = [nodes |-> GivenNodes, data |-> GivenData(rp),
                  edges |-> PickEdges(chosen, 1)]
    /\ pc = "extract"
    /\ idx = 1
    /\ attack_paths = <<>>
    /\ seen = {}
    /\ path_id = 1
    /\ NoScan
    /\ NoCrawl

SpecFaulty == InitFaulty /\ [][NextExtract]_vars

(***************************************************************************)
(* run_zap_scan and _summarize of backend/app/zap_client.py.  ZAP is the   *)
(* environment: each wait returns "ok" or a timeout text, and              *)
(* zap.core.alerts returns the list core_alerts.                           *)
(***************************************************************************)
\* Largest number of alerts zap.core.alerts returns.
MaxAlerts == 3

\* The keyword arguments of a call; Absent: the caller left it out.
ScanArgs ==
    [mode : {Absent, "fast", "normal", "deep"}, spider_only : {Absent, "True", "False"}]

\* The parameters with their defaults: spider_only=True, mode="fast".
spider_only == GetField(args.spider_only, "True") = "True"
mode == GetField(args.mode, "fast")

\* The risk field of the alerts of ZAP; Absent: the alert has none.
ZapRisks == {"High", "Medium", "Info", "Informational", Absent}

ZapAlertLists == UNION { [1..n -> [risk : ZapRisks]] : n \in 0..MaxAlerts }

WaitResults == {"ok", "timeout_after_60s"}

\* dict.get(key, 0) on the counts dictionary.
CountOf(counts, key) == IF key \in DOMAIN counts THEN counts[key] ELSE 0

\* counts[a.get("risk", "Info")] = counts.get(a.get("risk"), 0) + 1
CountAlert(counts, a) ==
    LET key == GetField(a.risk, "Info")
        read == IF a.risk = Absent THEN None ELSE a.risk
        value == CountOf(counts, read) + 1
    IN [k \in DOMAIN counts \cup {key} |-> IF k = key THEN value ELSE counts[k]]

RECURSIVE CountAlerts(_, _)
CountAlerts(counts, list) ==
    IF list = <<>> THEN counts ELSE CountAlerts(CountAlert(counts, Head(list)), Tail(list))

\* sum(counts.values())
RECURSIVE SumValues(_, _)
SumValues(counts, keys) ==
    IF keys = {} THEN 0
    ELSE LET k == CHOOSE x \in keys : TRUE
         IN counts[k] + SumValues(counts, keys \ {k})

_summarize(list) ==
    LET counts == CountAlerts([k \in {"High", "Medium", "Low", "Info"} |-> 0], list)
    IN [total |-> SumValues(counts, DOMAIN counts), counts |-> counts]

InitZap ==
    /\ args \in ScanArgs
    /\ core_alerts \in ZapAlertLists
    /\ zpc = "spider"
    /\ spider_status = None
    /\ passive_status = None
    /\ active_status = None
    /\ phases = <<>>
    /\ result = None
    /\ NoGraph
    /\ NoCrawl

\* spider_id = zap.spider.scan(target); spider_status = _wait_for_spider(spider_id)
Spider ==
    /\ zpc = "spider"
    /\ spider_status' \in WaitResults
    /\ phases' = Append(phases, "spider")
    /\ zpc' = "after_spider"
    /\ UNCHANGED <<args, passive_status, active_status, core_alerts, result>>
    /\ UNCHANGED <<graph_vars, crawl_vars>>

\* if mode == "fast" or spider_only: return {...}
FastReturn ==
    /\ zpc = "after_spider"
    /\ mode = "fast" \/ spider_only
    /\ result' = [mode |-> "fast", spider_status |-> spider_status,
                  alerts |-> core_alerts, summary |-> _summarize(core_alerts)]
    /\ zpc' = "done"
    /\ UNCHANGED <<args, spider_status, passive_status, active_status, core_alerts, phases>>
    /\ UNCHANGED <<graph_vars, crawl_vars>>

\* passive_status = _wait_for_passive()
PassiveWait ==
    /\ zpc = "after_spider"
    /\ ~(mode = "fast" \/ spider_only)
    /\ passive_status' \in WaitResults
    /\ phases' = Append(phases, "passive")
    /\ zpc' = "after_passive"
    /\ UNCHANGED <<args, spider_status, active_status, core_alerts, result>>
    /\ UNCHANGED <<graph_vars, crawl_vars>>

\* if mode == "normal": return {...}
NormalReturn ==
    /\ zpc = "after_passive"
    /\ mode = "normal"
    /\ result' = [mode |-> "normal", spider_status |-> spider_status,
                  passive_status |-> passive_status,
                  alerts |-> core_alerts, summary |-> _summarize(core_alerts)]
    /\ zpc' = "done"
    /\ UNCHANGED <<args, spider_status, passive_status, active_status, core_alerts, phases>>
    /\ UNCHANGED <<graph_vars, crawl_vars>>

\* scan_id = zap.ascan.scan(target); active_status = _wait_for_active(scan_id)
ActiveScan ==
    /\ zpc = "after_passive"
    /\ mode # "normal"
    /\ active_status' \in WaitResults
    /\ phases' = Append(phases, "active")
    /\ zpc' = "after_active"
    /\ UNCHANGED <<args, spider_status, passive_status, core_alerts, result>>
    /\ UNCHANGED <<graph_vars, crawl_vars>>

\* The final return of run_zap_scan.
DeepReturn ==
    /\ zpc = "after_active"
    /\ result' = [mode |-> "deep", spider_status |-> spider_status,
                  passive_status |-> passive_status, active_status |-> active_status,
                  alerts |-> core_alerts, summary |-> _summarize(core_alerts)]
    /\ zpc' = "done"
    /\ UNCHANGED <<args, spider_status, passive_status, active_status, core_alerts, phases>>
    /\ UNCHANGED <<graph_vars, crawl_vars>>

NextZap ==
    \/ Spider
    \/ FastReturn
    \/ PassiveWait
    \/ NormalReturn
    \/ ActiveScan
    \/ DeepReturn

SpecZap == InitZap /\ [][NextZap]_vars

(***************************************************************************)
(* SeleniumCrawler.crawl of backend/app/crawler.py.  The browser is the    *)
(* environment: site gives the hrefs of the anchors of each page in        *)
(* document order, and driver.get may raise.                               *)
(***************************************************************************)
start_url == "s"

\* The URLs below start_url, and one that does not start with it.
SiteUrls == {"s", "s/a", "s/b"}
Foreign == "ext"

\* href.startswith(start_url)
StartsWithStart(href) == href \in SiteUrls

\* The anchors of the start page: up to two hrefs, repeated or foreign ones
\* included; the two other pages link on, back or nowhere.
StartAnchors ==
    UNION { [1..n -> SiteUrls \cup {Foreign}] : n \in 0..2 }

Sites ==
    { ("s" :> a0) @@ ("s/a" :> a1) @@ ("s/b" :> a2) :
        a0 \in StartAnchors,
        a1 \in { <<>>, <<"s/b">>, <<"s">>, <<"s/b", "s">> },
        a2 \in { <<>>, <<"s/a">>, <<"s">> } }

\* self.max_pages, set by the constructor, and the max_depth of the call.
PageLimits == {1, 2}
DepthLimits == {0, 1, 2}

InitCrawl ==
    /\ site \in Sites
    /\ max_pages \in PageLimits
    /\ max_depth \in DepthLimits
    /\ visited = {}
    /\ queue = << [url |-> start_url, depth |-> 0] >>
    /\ results_pages = <<>>
    /\ fetched = <<>>
    /\ cpc = "loop"
    /\ NoGraph
    /\ NoScan

\* for a in anchors: if href and href.startswith(start_url): ...
\* if href not in visited: queue.append((href, depth + 1))
RECURSIVE Enqueue(_, _, _, _)
Enqueue(q, hrefs, seen_urls, depth) ==
    IF hrefs = <<>> THEN q
    ELSE LET href == Head(hrefs)
         IN IF StartsWithStart(href) /\ href \notin seen_urls
            THEN Enqueue(Append(q, [url |-> href, depth |-> depth + 1]),
                         Tail(hrefs), seen_urls, depth)
            ELSE Enqueue(q, Tail(hrefs), seen_urls, depth)

\* url, depth = queue.pop(0); if url in visited or depth > max_depth: continue
CrawlSkip ==
    /\ cpc = "loop"
    /\ queue # <<>>
    /\ Head(queue).url \in visited \/ Head(queue).depth > max_depth
    /\ queue' = Tail(queue)
    /\ UNCHANGED <<site, max_pages, max_depth, visited, results_pages, fetched, cpc>>
    /\ UNCHANGED <<graph_vars, zap_vars>>

\* One iteration that loads the page, records it and queues its links.
CrawlVisit ==
    /\ cpc = "loop"
    /\ queue # <<>>
    /\ ~(Head(queue).url \in visited \/ Head(queue).depth > max_depth)
    /\ LET url == Head(queue).url
           depth == Head(queue).depth
       IN /\ visited' = visited \cup {url}
          /\ fetched' = Append(fetched, [url |-> url, depth |-> depth])
          /\ results_pages' = Append(results_pages, [url |-> url, title |-> url])
          /\ queue' = Enqueue(Tail(queue), site[url], visited \cup {url}, depth)
    /\ UNCHANGED <<site, max_pages, max_depth, cpc>>
    /\ UNCHANGED <<graph_vars, zap_vars>>

\* One iteration in which driver.get raises: the except clause logs it.
CrawlFail ==
    /\ cpc = "loop"
    /\ queue # <<>>
    /\ ~(Head(queue).url \in visited \/ Head(queue).depth > max_depth)
    /\ visited' = visited \cup {Head(queue).url}
    /\ fetched' = Append(fetched, [url |-> Head(queue).url, depth |-> Head(queue).depth])
    /\ queue' = Tail(queue)
    /\ UNCHANGED <<site, max_pages, max_depth, results_pages, cpc>>
    /\ UNCHANGED <<graph_vars, zap_vars>>

\* while queue: ... return results
CrawlReturn ==
    /\ cpc = "loop"
    /\ queue = <<>>
    /\ cpc' = "done"
    /\ UNCHANGED <<site, max_pages, max_depth, visited, queue, results_pages, fetched>>
    /\ UNCHANGED <<graph_vars, zap_vars>>

NextCrawl ==
    \/ CrawlSkip
    \/ CrawlVisit
    \/ CrawlFail
    \/ CrawlReturn

SpecCrawl == InitCrawl /\ [][NextCrawl]_vars

(***************************************************************************)
(* Properties of the built graph                                           *)
(***************************************************************************)
\* The program is past the loop named by the phase.
Built == pc \in {"extract", "done"}
ThreatsRegistered == pc \in {"alerts", "portmap", "extract", "done"}
Done == pc = "done"

Edges(g) == Range(g.edges)
Nodes(g) == Range(g.nodes)

\* A node that build_attack_graph.add_node created carries a type and a label.
Typed(g, n) ==
    /\ HasNode(g, n)
    /\ "type" \in DOMAIN g.data[n]
    /\ "label" \in DOMAIN g.data[n]

\* Evidence of the port-to-threat loop that names a node the graph lacks.
DanglingPortEvidence ==
    \E i \in 1..Len(nmap) :
        /\ nmap[i].port = NonePort
        /\ LowerStr(Or(nmap[i].state, "")) = "open"
        /\ LowerStr(Or(nmap[i].service, "")) \in {"http", "https"}

\* C1: in every state of a build, and so in the graph it returns, each edge
\* joins two nodes that the builder created with a type and a label, and every
\* node of the graph is such a node: evidence that names a node the graph
\* lacks has added neither an edge nor a node.
C1_NoDanglingEdges ==
    /\ \A e \in Edges(G) : Typed(G, e.src) /\ Typed(G, e.dst)
    /\ \A n \in Nodes(G) : Typed(G, n)
    /\ Nodes(G) = DOMAIN G.data

\* C1 witness: a finished build whose port evidence named the absent node
\* port:None, in a graph that does have edges.
C1_Witness ==
    /\ Done
    /\ DanglingPortEvidence
    /\ G.edges # <<>>
    /\ ~HasNode(G, PortId(NonePort))

\* An edge from u to v whose relation is r.
EdgeRel(g, u, v, r) ==
    \E e \in Edges(g) : e.src = u /\ e.dst = v /\ e.relation = r

PortOpen(p) == LowerStr(Or(p.state, "")) = "open"
PortWeb(p) == LowerStr(Or(p.service, "")) \in {"http", "https"}

\* C6: when the FTP rule (open port 21, relation may_enable) and the web
\* rule (open port with service http or https, relation exposes) both produce
\* an edge from the same port node to threat:security_misconfig, the built
\* graph holds both edges, each with its own relation.
C6_BothRelationsKept ==
    Built =>
        \A i, j \in 1..Len(nmap) :
            ( /\ nmap[i].port = 21 /\ PortOpen(nmap[i])
              /\ nmap[j].port = 21 /\ PortOpen(nmap[j]) /\ PortWeb(nmap[j]) )
            => /\ EdgeRel(G, PortId(21), ThreatId("security_misconfig"), "may_enable")
               /\ EdgeRel(G, PortId(21), ThreatId("security_misconfig"), "exposes")

\* The first record of a list that resolves to the same key as record i.
First(list, Key(_), i) ==
    CHOOSE f \in 1..i :
        /\ Key(list[f]) = Key(list[i])
        /\ \A j \in 1..(f - 1) : Key(list[j]) # Key(list[i])

PortKey(p) == p.port
PageKey(page) == RStrip(page.url)

\* C7: when several records resolve to one node id, the node carries the
\* label and attributes of the first of them in input order, and the graph
\* holds each node id once.
C7_FirstWriteWins ==
    Built =>
        /\ \A i \in 1..Len(nmap) :
              nmap[i].port # NonePort =>
                  LET f == nmap[First(nmap, PortKey, i)]
                      d == G.data[PortId(nmap[i].port)]
                  IN /\ HasNode(G, PortId(nmap[i].port))
                     /\ d.type = "port"
                     /\ d.label = <<"Port ", PortText(f.port), " (",
                                    IF Truthy(f.service) THEN f.service ELSE "unknown",
                                    ")">>
                     /\ d.service = f.service
                     /\ d.state = f.state
        /\ \A i \in 1..Len(crawler) :
              TruthySeq(crawler[i].url) =>
                  LET f == crawler[First(crawler, PageKey, i)]
                      d == G.data[PageId(RStrip(crawler[i].url))]
                  IN d.type = "page" /\ d.label = RStrip(f.url)
        /\ \A i \in 1..Len(zap) :
              LET f == zap[First(zap, AlertId, i)]
                  d == G.data[VulnId(AlertId(zap[i]))]
              IN /\ d.type = "vuln"
                 /\ d.label = AlertName(f)
                 /\ d.risk = AlertRisk(f)
                 /\ d.url = AlertUrl(f)
        /\ \A i, j \in 1..Len(G.nodes) : G.nodes[i] = G.nodes[j] => i = j

\* C7 witness: a built graph from two alerts with one identifier and different
\* names and risks.
C7_Witness ==
    /\ Built
    /\ \E i, j \in 1..Len(zap) :
          /\ i < j
          /\ AlertId(zap[i]) = AlertId(zap[j])
          /\ AlertName(zap[i]) # AlertName(zap[j])
          /\ AlertRisk(zap[i]) # AlertRisk(zap[j])

SixThreats ==
    { <<"threat:", "clickjacking">>, <<"threat:", "xss">>,
      <<"threat:", "https_downgrade">>, <<"threat:", "mime_sniffing">>,
      <<"threat:", "ftp_weakness">>, <<"threat:", "security_misconfig">> }

ThreatNodes(g) == { n \in Nodes(g) : GetAttr(g.data[n], "type", None) = "threat" }

\* C8: once the threat nodes are registered, the threat-typed nodes of the
\* graph are exactly the six fixed ids, each with the label of threat_defs,
\* whatever evidence is processed afterwards.
C8_ClosedThreatSet ==
    ThreatsRegistered =>
        /\ ThreatNodes(G) = SixThreats
        /\ \A i \in 1..Len(threat_defs) :
              G.data[threat_defs[i].tid].label = threat_defs[i].label
        /\ Cardinality(SixThreats) = 6

\* An alert none of whose rules fires.
Unmapped(alert) ==
    LET n == Lower(AlertName(alert))
        d == Lower(OrSeq(alert.description, <<>>))
    IN ~(RuleClickjacking(n, d) \/ RuleXss(n, d) \/ RuleHttps(n, d)
         \/ RuleMime(n, d) \/ RuleMisconfig(n, d))

\* C8 witness: a finished build that processed an alert no rule maps and an
\* alert that a rule maps to a threat.
C8_Witness ==
    /\ Done
    /\ \E i \in 1..Len(zap) : Unmapped(zap[i])
    /\ \E e \in Edges(G) : e.relation = "leads_to"

\* The alert URL, normalized, names a crawled page.
MatchesPage(alert) ==
    /\ TruthySeq(alert.url)
    /\ \E i \in 1..Len(crawler) :
          /\ TruthySeq(crawler[i].url)
          /\ RStrip(crawler[i].url) = RStrip(alert.url)

\* C9: for every alert with a non-empty URL, the page node of the normalized
\* URL, when it exists, has a has_vulnerability edge to the alert's vuln node;
\* when it does not exist there is no such edge and no such page node.
C9_PageLinked ==
    Built =>
        \A i \in 1..Len(zap) :
            TruthySeq(zap[i].url) =>
                LET page_node == PageId(RStrip(zap[i].url))
                    vuln_node == VulnId(AlertId(zap[i]))
                IN IF HasNode(G, page_node)
                   THEN EdgeRel(G, page_node, vuln_node, "has_vulnerability")
                   ELSE ~HasEdge(G, page_node, vuln_node)

HasIncoming(g, n) == \E e \in Edges(g) : e.dst = n

OnSomePath(n) == \E i \in 1..Len(attack_paths) : n \in Range(attack_paths[i].nodes)

\* C10 as stated: the vuln node of every alert whose URL matches no crawled
\* page exists, has no incoming edge and is on no returned path.
C10_UnmatchedAlertUnreachable ==
    Built =>
        \A i \in 1..Len(zap) :
            ~MatchesPage(zap[i]) =>
                /\ HasNode(G, VulnId(AlertId(zap[i])))
                /\ ~HasIncoming(G, VulnId(AlertId(zap[i])))
                /\ ~OnSomePath(VulnId(AlertId(zap[i])))

\* C10 amended: the same, for an alert such that no alert with its identifier
\* has a URL that matches a crawled page.
C10_UnmatchedNodeUnreachable ==
    Built =>
        \A i \in 1..Len(zap) :
            (\A j \in 1..Len(zap) :
                AlertId(zap[j]) = AlertId(zap[i]) => ~MatchesPage(zap[j]))
            => /\ HasNode(G, VulnId(AlertId(zap[i])))
               /\ ~HasIncoming(G, VulnId(AlertId(zap[i])))
               /\ ~OnSomePath(VulnId(AlertId(zap[i])))

\* C10 witness: extraction has returned paths, one of them through the vuln
\* node of a matched alert, while an alert with another identifier and a
\* non-empty URL matched no crawled page although pages were crawled.
C10_Witness ==
    /\ Done
    /\ \E i, j \in 1..Len(zap) :
          /\ AlertId(zap[i]) # AlertId(zap[j])
          /\ TruthySeq(zap[i].url)
          /\ ~MatchesPage(zap[i])
          /\ \A k \in 1..Len(zap) :
                AlertId(zap[k]) = AlertId(zap[i]) => ~MatchesPage(zap[k])
          /\ MatchesPage(zap[j])
          /\ OnSomePath(VulnId(AlertId(zap[j])))

(***************************************************************************)
(* Properties of the extracted paths                                       *)
(***************************************************************************)
EntryNodes(g) ==
    { n \in Nodes(g) : GetAttr(g.data[n], "type", None) \in {"port", "page"} }

\* The walks of exactly k edges that start at a port or page node.
RECURSIVE WalksOfLen(_, _)
WalksOfLen(g, k) ==
    IF k = 0 THEN { <<n>> : n \in EntryNodes(g) }
    ELSE UNION { { Append(w, e.dst) : e \in { x \in Edges(g) : x.src = w[Len(w)] } } :
                 w \in WalksOfLen(g, k - 1) }

IsSimple(w) == \A i, j \in 1..Len(w) : w[i] = w[j] => i = j

EndsAtThreat(g, w) == GetAttr(g.data[w[Len(w)]], "type", None) = "threat"

\* The simple paths of 1 to n edges from a port or page node to a threat node.
AttackPathsUpTo(g, n) ==
    { w \in UNION { WalksOfLen(g, k) : k \in 1..n } : IsSimple(w) /\ EndsAtThreat(g, w) }

Returned == { attack_paths[i].nodes : i \in 1..Len(attack_paths) }

\* C2: the returned list has exactly one entry for every simple path of at
\* most 4 edges from a port or page node to a threat node: none is missing,
\* none is invented and no node sequence is emitted twice.
C2_ExactlyTheSimplePaths ==
    Done =>
        /\ Returned = AttackPathsUpTo(G, 4)
        /\ \A i, j \in 1..Len(attack_paths) :
              attack_paths[i].nodes = attack_paths[j].nodes => i = j

\* C2 witness: a returned list with paths from the port and from the page,
\* to both threats, one of them of 4 edges.
C2_Witness ==
    /\ Done
    /\ \E p, q \in Returned :
          /\ p[1] = NP /\ q[1] = NG
          /\ p[Len(p)] = NT1 /\ q[Len(q)] = NT2
    /\ \E p \in Returned : Len(p) = 5

\* C3: every returned path has at most 4 edges, repeats no node, starts at a
\* port or page node, ends at a threat node and follows edges of the graph.
C3_BoundedSimplePaths ==
    Done =>
        \A p \in Returned :
            /\ Len(p) - 1 <= 4
            /\ Len(p) - 1 >= 1
            /\ IsSimple(p)
            /\ p[1] \in EntryNodes(G)
            /\ EndsAtThreat(G, p)
            /\ \A i \in 1..(Len(p) - 1) : HasEdge(G, p[i], p[i + 1])

\* C3 witness: the graph has a simple path of 5 edges to a threat and a cycle,
\* and a path of 4 edges was returned.
C3_Witness ==
    /\ Done
    /\ \E w \in WalksOfLen(G, 5) : IsSimple(w) /\ EndsAtThreat(G, w)
    /\ HasEdge(G, NV1, NV2) /\ HasEdge(G, NV2, NV1)
    /\ \E p \in Returned : Len(p) = 5

\* The ordinal of a risk label, matched without regard to case.
Ordinal(risk) ==
    IF risk \in {None, Absent} THEN 0
    ELSE LET l == LowerStr(risk)
         IN IF l = "critical" THEN 4
            ELSE IF l = "high" THEN 3
            ELSE IF l = "medium" THEN 2
            ELSE IF l = "low" THEN 1
            ELSE 0

VulnsOn(g, p) == { n \in Range(p) : GetAttr(g.data[n], "type", None) = "vuln" }

MaxOrdinal(g, p) ==
    LET ranks == { Ordinal(GetAttr(g.data[n], "risk", Absent)) : n \in VulnsOn(g, p) }
    IN IF ranks = {} THEN 0 ELSE CHOOSE m \in ranks : \A r \in ranks : r <= m

\* C4: the ordinal of the risk label of every returned entry is the largest
\* ordinal among the risk attributes of the vuln nodes of its path; the label
\* is Informational when the path has no vuln node; and every path is
\* returned whatever the risk attributes of its vuln nodes are.
C4_RiskIsWorstOnPath ==
    Done =>
        /\ \A i \in 1..Len(attack_paths) :
              LET e == attack_paths[i]
              IN /\ Ordinal(e.risk) = MaxOrdinal(G, e.nodes)
                 /\ VulnsOn(G, e.nodes) = {} => e.risk = "Informational"
        /\ AttackPathsUpTo(G, 4) \subseteq Returned

\* C4 witness: a returned path through two vuln nodes of which the first has
\* the higher ordinal, and a returned path through a vuln node whose risk is
\* null and one whose risk is unrecognized.
C4_Witness ==
    /\ Done
    /\ \E i \in 1..Len(attack_paths) :
          LET p == attack_paths[i].nodes
          IN \E a, b \in 1..Len(p) :
                /\ a < b
                /\ {p[a], p[b]} \subseteq VulnsOn(G, p)
                /\ Ordinal(GetAttr(G.data[p[a]], "risk", Absent))
                     > Ordinal(GetAttr(G.data[p[b]], "risk", Absent))
    /\ \E i \in 1..Len(attack_paths) :
          LET p == attack_paths[i].nodes
          IN \E n, m \in VulnsOn(G, p) :
                /\ GetAttr(G.data[n], "risk", Absent) = None
                /\ GetAttr(G.data[m], "risk", Absent) = "bogus"

\* C5 as stated: no two returned entries have the same steps.
C5_DistinctSteps ==
    Done =>
        \A i, j \in 1..Len(attack_paths) :
            attack_paths[i].steps = attack_paths[j].steps => i = j

\* C5 amended: no two returned entries are built from the same node
\* sequence, and two entries with the same steps differ only in vuln nodes
\* that carry the same alert name.
C5_DistinctNodeSequences ==
    Done =>
        \A i, j \in 1..Len(attack_paths) :
            LET p == attack_paths[i].nodes
                q == attack_paths[j].nodes
            IN /\ p = q => i = j
               /\ attack_paths[i].steps = attack_paths[j].steps =>
                     /\ Len(p) = Len(q)
                     /\ \A k \in 1..Len(p) :
                           p[k] # q[k] =>
                               /\ {p[k], q[k]} \subseteq VulnsOn(G, p) \cup VulnsOn(G, q)
                               /\ G.data[p[k]].label = G.data[q[k]].label

\* C5 witness: two entries with the same steps over different vuln nodes,
\* beside entries from two different entry nodes.
C5_Witness ==
    /\ Done
    /\ \E i, j \in 1..Len(attack_paths) :
          /\ i # j
          /\ attack_paths[i].steps = attack_paths[j].steps
          /\ attack_paths[i].nodes # attack_paths[j].nodes

(***************************************************************************)
(* Port-based threat inference                                             *)
(***************************************************************************)
PathsFrom(n) == { p \in Returned : p[1] = n }

EntriesFor(p) == { i \in 1..Len(attack_paths) : attack_paths[i].nodes = p }

\* C11: for every port record with port number 21 and state open, the graph
\* has the node port:21 with a may_enable edge to threat:ftp_weakness and a
\* may_enable edge to threat:security_misconfig; with no pages and no alerts
\* the paths returned from port:21 are exactly these two edges, each once and
\* with risk Informational.
C11_FtpPortEdges ==
    Built =>
        \A i \in 1..Len(nmap) :
            (nmap[i].port = 21 /\ PortOpen(nmap[i])) =>
                /\ HasNode(G, PortId(21))
                /\ EdgeRel(G, PortId(21), ThreatId("ftp_weakness"), "may_enable")
                /\ EdgeRel(G, PortId(21), ThreatId("security_misconfig"), "may_enable")
                /\ (Done /\ crawler = <<>> /\ zap = <<>>) =>
                      /\ PathsFrom(PortId(21)) =
                            { <<PortId(21), ThreatId("ftp_weakness")>>,
                              <<PortId(21), ThreatId("security_misconfig")>> }
                      /\ \A p \in PathsFrom(PortId(21)) :
                            /\ Cardinality(EntriesFor(p)) = 1
                            /\ \A k \in EntriesFor(p) :
                                  attack_paths[k].risk = "Informational"

\* C12: for every port record with a port number n, state open and service
\* http or https, the graph has an edge from port:n to
\* threat:security_misconfig whose relation is exposes, whatever the other
\* port records are.
C12_WebPortExposes ==
    Built =>
        \A i \in 1..Len(nmap) :
            (nmap[i].port # NonePort /\ PortOpen(nmap[i]) /\ PortWeb(nmap[i])) =>
                EdgeRel(G, PortId(nmap[i].port), ThreatId("security_misconfig"), "exposes")

(***************************************************************************)
(* URL normalization                                                       *)
(***************************************************************************)
IsUrl(u) == u # NoneSeq

OneSlashApart(u, v) == u = v \o <<"/">> \/ v = u \o <<"/">>

MatchesClickjacking(alert) ==
    RuleClickjacking(Lower(AlertName(alert)), Lower(OrSeq(alert.description, <<>>)))

EntriesBetween(src, dst) ==
    { i \in 1..Len(attack_paths) :
        /\ attack_paths[i].nodes[1] = src
        /\ attack_paths[i].nodes[Len(attack_paths[i].nodes)] = dst }

\* C13: an alert whose URL differs from a page record's URL only by one
\* trailing slash has a has_vulnerability edge from that page's node to its
\* vuln node; when it is the only alert, matches the clickjacking rule and
\* has risk Medium, the returned list has exactly one entry from the page
\* node to threat:clickjacking, with the steps page, vuln, threat and risk
\* Medium.
C13_SlashAlertLinked ==
    Built =>
        \A i \in 1..Len(zap) : \A j \in 1..Len(crawler) :
            LET alert == zap[i]
                page == crawler[j]
                page_node == PageId(RStrip(page.url))
                vuln_node == VulnId(AlertId(alert))
            IN (/\ IsUrl(alert.url) /\ IsUrl(page.url) /\ TruthySeq(page.url)
                /\ OneSlashApart(alert.url, page.url)) =>
                   /\ EdgeRel(G, page_node, vuln_node, "has_vulnerability")
                   /\ (/\ Done /\ Len(zap) = 1
                       /\ MatchesClickjacking(alert) /\ alert.risk = "Medium") =>
                          /\ Cardinality(EntriesBetween(page_node, ThreatId("clickjacking"))) = 1
                          /\ \A k \in EntriesBetween(page_node, ThreatId("clickjacking")) :
                                /\ attack_paths[k].nodes =
                                      <<page_node, vuln_node, ThreatId("clickjacking")>>
                                /\ attack_paths[k].risk = "Medium"

PageNodes(g) == NodesOfType(g, "page")

StripOne(u) == IF u # <<>> /\ u[Len(u)] = "/" THEN SubSeq(u, 1, Len(u) - 1) ELSE u

\* C15: the page node id of a URL is "page:" followed by the URL
\* with exactly one trailing slash removed when present, so a URL ending in
\* two slashes keeps one and gets a node of its own, apart from the node of
\* the same URL without trailing slashes.
C15_StripsOneSlash ==
    Built =>
        /\ \A i \in 1..Len(crawler) :
              TruthySeq(crawler[i].url) =>
                  HasNode(G, PageId(StripOne(crawler[i].url)))
        /\ \A i \in 1..Len(crawler) : \A j \in 1..Len(crawler) :
              (/\ TruthySeq(crawler[i].url)
               /\ crawler[j].url = crawler[i].url \o <<"/", "/">>) =>
                  /\ HasNode(G, PageId(crawler[i].url \o <<"/">>))
                  /\ Len(PageNodes(G)) >= 2

(***************************************************************************)
(* Alerts                                                                  *)
(***************************************************************************)
NoId(alert) == alert.id = Absent /\ alert.pluginId = Absent

VulnNodes(g) == NodesOfType(g, "vuln")

\* C16: for an alert with neither an id nor a pluginId the vuln node id is
\* not the bare prefix "vuln:" but carries a synthesized name, so two such
\* alerts with different names give two distinct vuln nodes, each labelled
\* with its alert's name.
C16_SynthesizedVulnId ==
    Built =>
        /\ (\E i \in 1..Len(zap) : NoId(zap[i])) => ~HasNode(G, <<"vuln:", "">>)
        /\ \A i \in 1..Len(zap) : \A j \in 1..Len(zap) :
              (/\ NoId(zap[i]) /\ NoId(zap[j])
               /\ AlertName(zap[i]) # AlertName(zap[j])) =>
                  \E m \in Range(VulnNodes(G)) : \E n \in Range(VulnNodes(G)) :
                      /\ m # n
                      /\ node_label(G, m) = AlertName(zap[i])
                      /\ node_label(G, n) = AlertName(zap[j])

LowerName(alert) == Lower(AlertName(alert))
LowerDesc(alert) == Lower(OrSeq(alert.description, <<>>))

LeadsToThreat(g, alert_id, threat) ==
    EdgeRel(g, VulnId(alert_id), ThreatId(threat), "leads_to")

\* C17 as stated: an alert whose lower-cased name or description contains
\* "clickjacking" has a leads_to edge from its vuln node to
\* threat:clickjacking, also when the name has the word without the "anti-"
\* prefix and the description is empty.
C17_ClickjackingInNameOrDesc ==
    Built =>
        \A i \in 1..Len(zap) :
            (\/ Contains(LowerName(zap[i]), <<"clickjacking">>)
             \/ Contains(LowerDesc(zap[i]), <<"clickjacking">>)) =>
                LeadsToThreat(G, AlertId(zap[i]), "clickjacking")

NamesAntiClickjacking(alert) ==
    \/ Contains(LowerDesc(alert), <<"clickjacking">>)
    \/ Contains(LowerName(alert), <<"anti-", "clickjacking">>)

\* C17: an alert whose lower-cased description contains "clickjacking" or
\* whose lower-cased name contains "anti-clickjacking" has a leads_to edge
\* from its vuln node to threat:clickjacking, and a vuln node has that edge
\* only when an alert with its id is such an alert: the word in the name
\* without the "anti-" prefix gives no edge.
C17_ClickjackingRule ==
    Built =>
        /\ \A i \in 1..Len(zap) :
              NamesAntiClickjacking(zap[i]) =>
                  LeadsToThreat(G, AlertId(zap[i]), "clickjacking")
        /\ \A i \in 1..Len(zap) :
              HasEdge(G, VulnId(AlertId(zap[i])), ThreatId("clickjacking")) =>
                  \E j \in 1..Len(zap) :
                      /\ AlertId(zap[j]) = AlertId(zap[i])
                      /\ NamesAntiClickjacking(zap[j])

\* C17 witness: a finished build with an alert whose name has "clickjacking"
\* without the prefix and that got no edge, and another alert that got one.
C17_Witness ==
    /\ Built
    /\ \E i \in 1..Len(zap) : \E j \in 1..Len(zap) :
          /\ Contains(LowerName(zap[i]), <<"clickjacking">>)
          /\ ~Contains(LowerName(zap[i]), <<"anti-", "clickjacking">>)
          /\ ~HasEdge(G, VulnId(AlertId(zap[i])), ThreatId("clickjacking"))
          /\ LeadsToThreat(G, AlertId(zap[j]), "clickjacking")

\* The threats whose rule holds on the alert's lower-cased name and description.
FiredThreats(alert) ==
    LET n == LowerName(alert)
        d == LowerDesc(alert)
    IN   (IF RuleClickjacking(n, d) THEN {"clickjacking"} ELSE {})
    \cup (IF RuleXss(n, d) THEN {"xss"} ELSE {})
    \cup (IF RuleHttps(n, d) THEN {"https_downgrade"} ELSE {})
    \cup (IF RuleMime(n, d) THEN {"mime_sniffing"} ELSE {})
    \cup (IF RuleMisconfig(n, d) THEN {"security_misconfig"} ELSE {})

SameId(alert) == { j \in 1..Len(zap) : AlertId(zap[j]) = AlertId(alert) }

LeadsToTargets(g, v) ==
    { e.dst : e \in { x \in Edges(g) : x.src = v /\ x.relation = "leads_to" } }

\* C18: the five rules are evaluated independently: for every rule that holds
\* on an alert, its vuln node has a leads_to edge to that rule's threat, and
\* the leads_to edges of a vuln node are exactly those of the rules that hold
\* on the alerts with its id, so an alert with an id of its own that matches k
\* rules has k outgoing leads_to edges.
C18_IndependentRules ==
    Built =>
        \A i \in 1..Len(zap) :
            LET v == VulnId(AlertId(zap[i]))
            IN /\ \A t \in FiredThreats(zap[i]) : LeadsToThreat(G, AlertId(zap[i]), t)
               /\ LeadsToTargets(G, v) =
                     { ThreatId(t) : t \in UNION { FiredThreats(zap[j]) : j \in SameId(zap[i]) } }
               /\ SameId(zap[i]) = {i} =>
                     Cardinality(LeadsToTargets(G, v)) = Cardinality(FiredThreats(zap[i]))

\* C18 witness: a finished build with an alert, alone with its id, on which
\* the clickjacking rule and the misconfiguration rule hold and whose vuln
\* node has two outgoing leads_to edges.
C18_Witness ==
    /\ Built
    /\ \E i \in 1..Len(zap) :
          /\ SameId(zap[i]) = {i}
          /\ FiredThreats(zap[i]) = {"clickjacking", "security_misconfig"}
          /\ Cardinality(LeadsToTargets(G, VulnId(AlertId(zap[i])))) = 2

(***************************************************************************)
(* Malformed records                                                       *)
(***************************************************************************)
PortNodes(g) == NodesOfType(g, "port")

GoodPorts == { i \in 1..Len(nmap) : nmap[i].port # NonePort }
GoodPages == { i \in 1..Len(crawler) : crawler[i].url # NoneSeq /\ crawler[i].url # <<>> }

\* C19: whatever fields of the records are missing or null, every loop of
\* the build is at a record of its list until the build ends: a port record with a null port number and a page record with a
\* null or empty URL leave no node and no edge, and every other record has its
\* node, so the nodes of the built graph are the six threats and the nodes of
\* the remaining port, page and alert records.
C19_MalformedRecordsSkipped ==
    /\ pc = "ports" => idx \in 1..Len(nmap)
    /\ pc = "pages" => idx \in 1..Len(crawler)
    /\ pc = "alerts" => idx \in 1..Len(zap)
    /\ pc = "portmap" => idx \in 1..Len(nmap)
    /\ Built =>
          /\ Range(PortNodes(G)) = { PortId(nmap[i].port) : i \in GoodPorts }
          /\ Range(PageNodes(G)) = { PageId(RStrip(crawler[i].url)) : i \in GoodPages }
          /\ Range(VulnNodes(G)) = { VulnId(AlertId(zap[i])) : i \in 1..Len(zap) }
          /\ Nodes(G) = Range(PortNodes(G)) \cup Range(PageNodes(G))
                           \cup Range(VulnNodes(G)) \cup SixThreats
          /\ ~HasNode(G, <<"port:", "None">>)
          /\ \A e \in Edges(G) :
                <<"port:", "None">> \notin {e.src, e.dst}
          /\ GoodPages = {} => \A e \in Edges(G) : e.relation # "has_vulnerability"
          /\ GoodPorts = {} => \A e \in Edges(G) : e.relation \notin {"may_enable", "exposes"}

\* C19 witness: a finished build whose first port record has a null port
\* number and whose second has a null state and service and got its node,
\* with a page record whose URL is null or empty.
C19_Witness ==
    /\ Done
    /\ Len(nmap) = 2
    /\ nmap[1].port = NonePort
    /\ nmap[2].port = 80 /\ nmap[2].state = None /\ nmap[2].service = None
    /\ HasNode(G, PortId(80))
    /\ Len(crawler) = 1
    /\ GoodPages = {}
    /\ PageNodes(G) = <<>>

(***************************************************************************)
(* Order of the returned list                                              *)
(***************************************************************************)
ThreatOrder ==
    << <<"threat:", "clickjacking">>, <<"threat:", "xss">>,
       <<"threat:", "https_downgrade">>, <<"threat:", "mime_sniffing">>,
       <<"threat:", "ftp_weakness">>, <<"threat:", "security_misconfig">> >>

PositionIn(list, x) == CHOOSE i \in 1..Len(list) : list[i] = x

PathSource(i) == attack_paths[i].nodes[1]
PathThreat(i) == attack_paths[i].nodes[Len(attack_paths[i].nodes)]

IsPortNode(n) == n[1] = "port:"

\* The place of a source node: the ports by the first record that names them,
\* then the pages by the first record that names them.
SourceRank(n) ==
    IF IsPortNode(n)
    THEN CHOOSE i \in GoodPorts :
            /\ PortId(nmap[i].port) = n
            /\ \A j \in GoodPorts : PortId(nmap[j].port) = n => i <= j
    ELSE Len(nmap) +
         (CHOOSE i \in GoodPages :
            /\ PageId(RStrip(crawler[i].url)) = n
            /\ \A j \in GoodPages : PageId(RStrip(crawler[j].url)) = n => i <= j)

EdgePosition(g, u, v) ==
    CHOOSE i \in 1..Len(g.edges) : g.edges[i].src = u /\ g.edges[i].dst = v

\* Two paths of one (source, threat) pair in depth-first order: where they
\* first differ, the edge taken by the first was added before the other's.
EnumeratedBefore(p, q) ==
    \E k \in 2..Len(p) :
        /\ k <= Len(q)
        /\ SubSeq(p, 1, k - 1) = SubSeq(q, 1, k - 1)
        /\ p[k] # q[k]
        /\ EdgePosition(G, p[k - 1], p[k]) < EdgePosition(G, q[k - 1], q[k])

\* C20: the returned list is ordered by threat in the registration order of
\* the six threats, then by source with the ports in insertion order ahead of
\* the pages in insertion order, then by the enumeration order of the paths
\* of the pair: no entry of a later threat precedes one of an earlier threat,
\* and within a threat no page-sourced entry precedes a port-sourced one.
C20_OutputOrder ==
    Done =>
        \A a \in 1..Len(attack_paths) : \A b \in 1..Len(attack_paths) :
            a < b =>
                LET ta == PositionIn(ThreatOrder, PathThreat(a))
                    tb == PositionIn(ThreatOrder, PathThreat(b))
                    sa == SourceRank(PathSource(a))
                    sb == SourceRank(PathSource(b))
                IN /\ ta <= tb
                   /\ ta = tb => sa <= sb
                   /\ (ta = tb /\ IsPortNode(PathSource(b))) => IsPortNode(PathSource(a))
                   /\ (ta = tb /\ sa = sb) =>
                         EnumeratedBefore(attack_paths[a].nodes, attack_paths[b].nodes)

\* C20 witness: a returned list with a port-sourced entry ahead of a
\* page-sourced entry of the same threat, after an entry of an earlier threat.
C20_Witness ==
    /\ Done
    /\ \E a \in 1..Len(attack_paths) : \E b \in 1..Len(attack_paths) :
       \E c \in 1..Len(attack_paths) :
          /\ a < b /\ b < c
          /\ PathThreat(a) # PathThreat(b)
          /\ PathThreat(b) = PathThreat(c)
          /\ IsPortNode(PathSource(b))
          /\ ~IsPortNode(PathSource(c))

(***************************************************************************)
(* Failures inside extract_attack_paths                                    *)
(***************************************************************************)
\* The node sequences whose handling raised: seen, never appended.
FailedPaths == seen \ Returned

\* C21: at every point of one call the i-th entry of the list has the id
\* path_i, so the ids of the returned list are unique and are path_1 ..
\* path_n without a gap, also when pairs have no path or fail.
C21_ContiguousIds ==
    /\ \A i \in 1..Len(attack_paths) : attack_paths[i].id = <<"path_", i>>
    /\ \A i \in 1..Len(attack_paths) : \A j \in 1..Len(attack_paths) :
          attack_paths[i].id = attack_paths[j].id => i = j
    /\ path_id = Len(attack_paths) + 1

\* C21 witness: a returned list of at least two entries from a call in which
\* a path to the first threat failed and a path to the second threat was
\* emitted afterwards, and in which the port has no path to the second threat.
C21_Witness ==
    /\ Done
    /\ Len(attack_paths) >= 2
    /\ \E k \in FailedPaths : k[Len(k)] = NT1
    /\ \E i \in 1..Len(attack_paths) : PathThreat(i) = NT2
    /\ \A i \in 1..Len(attack_paths) : ~(PathSource(i) = NP /\ PathThreat(i) = NT2)

(***************************************************************************)
(* Shape of the built graph                                                *)
(***************************************************************************)
NoRecords == nmap = <<>> /\ crawler = <<>> /\ zap = <<>>

\* C22: built from empty ports, pages and alerts, the graph has exactly the
\* six threat nodes and no edge, and extract_attack_paths returns the empty
\* list for it.
C22_EmptyInput ==
    (NoRecords /\ Built) =>
        /\ G.nodes = ThreatOrder
        /\ \A n \in Nodes(G) : node_type(G, n) = "threat"
        /\ Cardinality(Nodes(G)) = 6
        /\ G.edges = <<>>
        /\ attack_paths = <<>>

\* C22 witness: the call on empty collections has returned.
C22_Witness == Done /\ NoRecords /\ Len(G.nodes) = 6 /\ path_id = 1

\* The (source, threat) pairs with a path whose handling raised.
FailedPairs == { <<k[1], k[Len(k)]>> : k \in FailedPaths }

PairOf(p) == <<p[1], p[Len(p)]>>

\* C24: a failure raised while handling one (source, threat) pair leaves no
\* path of that pair in the result, also none found before the failure, the
\* call returns all the same, and every path of every other pair is returned.
C24_FailedPairYieldsNothing ==
    Done =>
        /\ \A p \in Returned : PairOf(p) \notin FailedPairs
        /\ \A p \in AttackPathsUpTo(G, Cutoff) :
              PairOf(p) \notin FailedPairs => p \in Returned

TypeOf(n) == node_type(G, n)

EdgeShapes ==
    { <<"page", "has_vulnerability", "vuln">>, <<"vuln", "leads_to", "threat">>,
      <<"port", "may_enable", "threat">>, <<"port", "exposes", "threat">> }

\* C25: in every built graph each edge goes from a page to a vuln with
\* has_vulnerability, from a vuln to a threat with leads_to, or from a port
\* to a threat with may_enable or exposes; a threat has no outgoing edge and a
\* port or page no incoming edge, so no path comes back to a node, and every
\* returned path is port, threat (1 edge) or page, vuln, threat (2 edges).
C25_LayeredGraph ==
    Built =>
        /\ \A e \in Edges(G) : <<TypeOf(e.src), e.relation, TypeOf(e.dst)>> \in EdgeShapes
        /\ \A e \in Edges(G) : TypeOf(e.src) # "threat" /\ TypeOf(e.dst) \notin {"port", "page"}
        /\ \A k \in 1..Cutoff : \A w \in WalksOfLen(G, k) : IsSimple(w)
        /\ \A i \in 1..Len(attack_paths) :
              LET p == attack_paths[i].nodes
              IN \/ Len(p) = 2 /\ TypeOf(p[1]) = "port" /\ TypeOf(p[2]) = "threat"
                 \/ /\ Len(p) = 3
                    /\ TypeOf(p[1]) = "page" /\ TypeOf(p[2]) = "vuln" /\ TypeOf(p[3]) = "threat"

\* C25 witness: a returned list with a path of 1 edge and a path of 2 edges.
C25_Witness ==
    /\ Done
    /\ \E i \in 1..Len(attack_paths) : \E j \in 1..Len(attack_paths) :
          Len(attack_paths[i].nodes) = 2 /\ Len(attack_paths[j].nodes) = 3

StoredState(n) == GetAttr(G.data[n], "state", None)

HasOutEdge(n) == \E e \in Edges(G) : e.src = n

\* A record of the port node n that fires a rule of the second port loop.
OpenEvidence(n) ==
    \E i \in GoodPorts :
        /\ PortId(nmap[i].port) = n
        /\ PortOpen(nmap[i])
        /\ nmap[i].port = 21 \/ PortWeb(nmap[i])

\* C26 as stated: every port node with an outgoing edge to a threat has a
\* stored state attribute equal to "open" whatever the case, also when
\* several records name the port with different states.
C26_EdgePortStoredOpen ==
    Built =>
        \A n \in Range(PortNodes(G)) :
            HasOutEdge(n) => LowerStr(Or(StoredState(n), "")) = "open"

\* C26: a port node has an outgoing edge to a threat exactly when some record
\* with its port number has state open (whatever the case) and is port 21 or
\* an http/https service; its stored state is the state of the first record
\* with its port number, which need not be that record.
C26_EdgePortHasOpenRecord ==
    Built =>
        /\ \A n \in Range(PortNodes(G)) : HasOutEdge(n) <=> OpenEvidence(n)
        /\ \A i \in GoodPorts :
              StoredState(PortId(nmap[i].port)) = nmap[First(nmap, PortKey, i)].state

\* C26 witness: a built graph with a port node that has an outgoing edge and
\* whose stored state is closed.
C26_Witness ==
    /\ Built
    /\ \E n \in Range(PortNodes(G)) : HasOutEdge(n) /\ StoredState(n) = "closed"

\* The alert that created the vuln node n: the first one with its id.
Creator(n) ==
    zap[CHOOSE i \in 1..Len(zap) :
            /\ VulnId(AlertId(zap[i])) = n
            /\ \A j \in 1..(i - 1) : VulnId(AlertId(zap[j])) # n]

\* The threats whose rule holds on the stored label of the vuln node n and on
\* the description of the alert that created it.
FiredOnStored(n) ==
    LET l == Lower(node_label(G, n))
        d == LowerDesc(Creator(n))
    IN   (IF RuleClickjacking(l, d) THEN {ThreatId("clickjacking")} ELSE {})
    \cup (IF RuleXss(l, d) THEN {ThreatId("xss")} ELSE {})
    \cup (IF RuleHttps(l, d) THEN {ThreatId("https_downgrade")} ELSE {})
    \cup (IF RuleMime(l, d) THEN {ThreatId("mime_sniffing")} ELSE {})
    \cup (IF RuleMisconfig(l, d) THEN {ThreatId("security_misconfig")} ELSE {})

AlertsOf(n) == { j \in 1..Len(zap) : VulnId(AlertId(zap[j])) = n }

\* C27 as stated: each leads_to edge is justified by the label stored on its
\* vuln node or the description of the alert that created the node, and each
\* has_vulnerability edge comes from the page of the url stored on the vuln
\* node, also when several alerts share an id.
C27_EdgesJustifiedByStoredAlert ==
    Built =>
        \A e \in Edges(G) :
            /\ e.relation = "leads_to" => e.dst \in FiredOnStored(e.src)
            /\ e.relation = "has_vulnerability" =>
                  e.src = PageId(GetAttr(G.data[e.dst], "url", <<>>))

\* C27: each leads_to edge is justified by some alert with the id of its vuln
\* node (the rule of the threat holds on that alert's name and description),
\* each has_vulnerability edge comes from the page of the normalized URL of
\* some alert with that id, and every alert adds these edges, also one whose
\* id an earlier alert had: the justifying alert need not be the one stored.
C27_EdgesJustifiedBySomeAlert ==
    Built =>
        /\ \A e \in Edges(G) :
              /\ e.relation = "leads_to" =>
                    \E j \in AlertsOf(e.src) : e.dst \in { ThreatId(t) : t \in FiredThreats(zap[j]) }
              /\ e.relation = "has_vulnerability" =>
                    \E j \in AlertsOf(e.dst) :
                        /\ TruthySeq(zap[j].url)
                        /\ e.src = PageId(RStrip(zap[j].url))
        /\ \A j \in 1..Len(zap) :
              /\ \A t \in FiredThreats(zap[j]) : LeadsToThreat(G, AlertId(zap[j]), t)
              /\ (/\ TruthySeq(zap[j].url) /\ RStrip(zap[j].url) # <<>>
                  /\ HasNode(G, PageId(RStrip(zap[j].url)))) =>
                    EdgeRel(G, PageId(RStrip(zap[j].url)), VulnId(AlertId(zap[j])),
                            "has_vulnerability")

\* C27 witness: a built graph with a leads_to edge that the stored alert does
\* not justify and a has_vulnerability edge from a page other than the one of
\* the stored url.
C27_Witness ==
    /\ Built
    /\ \E e \in Edges(G) : e.relation = "leads_to" /\ e.dst \notin FiredOnStored(e.src)
    /\ \E e \in Edges(G) :
          /\ e.relation = "has_vulnerability"
          /\ e.src # PageId(GetAttr(G.data[e.dst], "url", <<>>))

(***************************************************************************)
(* Order of the records                                                    *)
(***************************************************************************)
Perms(n) == { f \in [1..n -> 1..n] : \A i \in 1..n : \A j \in 1..n : f[i] = f[j] => i = j }

Permuted(list, f) == [i \in 1..Len(list) |-> list[f[i]]]

EdgePairs(g) == { <<e.src, e.dst>> : e \in Edges(g) }

\* C28: the node ids and the (source, destination) pairs of the built graph
\* do not depend on the order of the records in the three collections: the
\* build of any permutation of each collection has the same node ids and the
\* same edge pairs as the graph built from the collections as given.
C28_OrderIndependent ==
    Done =>
        \A f \in Perms(Len(nmap)) : \A h \in Perms(Len(crawler)) : \A k \in Perms(Len(zap)) :
            LET g == build_attack_graph(Permuted(nmap, f), Permuted(crawler, h),
                                        Permuted(zap, k))
            IN /\ Nodes(g) = Nodes(G)
               /\ EdgePairs(g) = EdgePairs(G)

\* C28 witness: a finished build whose reversed port records give another
\* stored state and whose reversed alerts give another stored label, with
\* edges from both.
C28_Witness ==
    /\ Done
    /\ \/ /\ Len(nmap) >= 2
          /\ nmap[1].port = nmap[2].port /\ nmap[1].state # nmap[2].state
          /\ \E e \in Edges(G) : e.src = PortId(nmap[1].port)
       \/ /\ Len(zap) >= 2
          /\ AlertId(zap[1]) = AlertId(zap[2])
          /\ FiredThreats(zap[1]) # FiredThreats(zap[2])
          /\ FiredThreats(zap[1]) # {} /\ FiredThreats(zap[2]) # {}

(***************************************************************************)
(* run_zap_scan                                                            *)
(***************************************************************************)
ScanDone == zpc = "done"

\* The call passed the mode m and no other keyword argument.
CalledWithModeOnly(m) == args.mode = m /\ args.spider_only = Absent

\* C23: called with mode "deep" and nothing else, run_zap_scan runs spider,
\* passive wait and active scan in this order and returns mode "deep" with
\* the three statuses; called with mode "normal" it runs spider and passive
\* wait and returns mode "normal"; only mode "fast" stops after the spider.
C23_ModeSelectsPhases ==
    ScanDone =>
        /\ CalledWithModeOnly("deep") =>
              /\ phases = <<"spider", "passive", "active">>
              /\ result.mode = "deep"
              /\ {"spider_status", "passive_status", "active_status"} \subseteq DOMAIN result
        /\ CalledWithModeOnly("normal") =>
              /\ phases = <<"spider", "passive">>
              /\ result.mode = "normal"
        /\ (args.spider_only = Absent /\ phases = <<"spider">>) => mode = "fast"

NoRisk(list) == { i \in 1..Len(list) : list[i].risk = Absent }

\* C29: _summarize counts every alert once: the total is the number of
\* alerts, the counts per risk add up to it, and the alerts without a risk
\* field are counted under Info.
C29_SummaryCountsEveryAlert ==
    ScanDone =>
        LET summary == result.summary
        IN /\ summary.total = Len(core_alerts)
           /\ SumValues(summary.counts, DOMAIN summary.counts) = summary.total
           /\ summary.counts["Info"] =
                 Cardinality({ i \in 1..Len(core_alerts) :
                                 core_alerts[i].risk \in {Absent, "Info"} })

(***************************************************************************)
(* SeleniumCrawler.crawl                                                   *)
(***************************************************************************)
\* C30: a crawl of a crawler constructed with max_pages = N records at most
\* N pages, hands each URL to the browser at most once and records no page
\* deeper than max_depth, whatever the links of the site.
C30_PageLimit ==
    /\ Len(results_pages) <= max_pages
    /\ \A i \in 1..Len(fetched) : \A j \in 1..Len(fetched) :
          fetched[i].url = fetched[j].url => i = j
    /\ \A i \in 1..Len(fetched) : fetched[i].depth <= max_depth
    /\ \A i \in 1..Len(results_pages) :
          \E j \in 1..Len(fetched) : fetched[j].url = results_pages[i].url

====
